---- MODULE Spec2Model ----
(***************************************************************************)
(* Model of the terminal-ui host: the Host event loop (render.rs), the     *)
(* input thread (Host::handle_key_input), the background worker            *)
(* (Host::background_task in main.rs) and the cancellation token           *)
(* Arc<AtomicBool> with its weak count.                                     *)
(***************************************************************************)
EXTENDS Integers, Sequences, FiniteSets, Bags, TLC

(***************************************************************************)
(* Bounds of the model.                                                    *)
(***************************************************************************)
\* key events sent by the input thread and not yet received by the Host
MaxQueue == 1
\* workers running or requested (an r/R press in the channel) at one time
MaxSpawns == 2
\* the same, where the user mostly navigates (SpecUI) or watches one run (SpecRun)
MaxUISpawns == 1
\* loop iterations one worker starts (Spec, SpecUI)
MaxTicks == 1
\* events waiting in the channel when a worker sends one more, while the
\* Host is receiving
MaxBacklog == 1

(***************************************************************************)
(* f64 arithmetic on the values the worker computes.  A value v >= 0 is    *)
(* the triple <<hi, mid, lo>> of base-2^20 limbs of v * 2^59 (2^-59 is the *)
(* unit in the last place of the increment 0.01).  A result is rounded to  *)
(* 53 significant bits, ties to even, as IEEE-754 binary64 does.           *)
(***************************************************************************)
RECURSIVE BitLen(_)
BitLen(n) == IF n = 0 THEN 0 ELSE 1 + BitLen(n \div 2)

Pow2(k) == 2 ^ k

Limb == Pow2(20)

\* carry propagation of limbs that may exceed the base
F64Norm(hi, mid, lo) ==
    LET mid1 == mid + (lo \div Limb)
    IN  << hi + (mid1 \div Limb), mid1 % Limb, lo % Limb >>

\* round an exact value to 53 significant bits, ties to even
F64Round(v) ==
    LET k  == IF BitLen(v[1]) > 13 THEN BitLen(v[1]) - 13 ELSE 0
        p  == Pow2(k)
        q  == v[3] \div p
        r  == v[3] % p
        up == (2 * r > p) \/ (2 * r = p /\ q % 2 = 1)
    IN  F64Norm(v[1], v[2], (IF up THEN q + 1 ELSE q) * p)

\* a + b in f64
F64Add(a, b) == F64Round(F64Norm(a[1] + b[1], a[2] + b[2], a[3] + b[3]))

\* a < b
F64Lt(a, b) ==
    \/ a[1] < b[1]
    \/ a[1] = b[1] /\ a[2] < b[2]
    \/ a[1] = b[1] /\ a[2] = b[2] /\ a[3] < b[3]

\* f64::min
F64Min(a, b) == IF F64Lt(b, a) THEN b ELSE a

\* 0_f64, 1_f64 and the literal 0.01_f64 = 0x1.47ae147ae147bp-7
F64Zero == << 0, 0, 0 >>
F64One == << 524288, 0, 0 >>
increment == << 5242, 922746, 922747 >>

(***************************************************************************)
(* Events and keys.                                                        *)
(***************************************************************************)
KeyCodes == {"q", "Q", "c", "C", "r", "R", "y", "Y", "n", "N", "Left", "Right", "Esc"}
KeyKinds == {"Press", "Release", "Repeat"}
KeyEvents == [code : KeyCodes, kind : KeyKinds]

\* what crossterm::event::read returns: a key event or some other terminal event
TerminalEvents(keys) == [type : {"Key"}, key : keys] \cup {[type |-> "Resize"]}

KeyInput(k) == [type |-> "KeyInput", key |-> k]
BackgroundTask(p) == [type |-> "BackgroundTask", progress |-> p]

\* SelectedTab as usize, and FromRepr
TabCount == 4
from_repr(n) == IF n >= 0 /\ n < TabCount THEN << "Some", n >> ELSE << "None" >>
unwrap_or(opt, dflt) == IF opt[1] = "Some" THEN opt[2] ELSE dflt
saturating_add(n, d) == n + d
saturating_sub(n, d) == IF n - d < 0 THEN 0 ELSE n - d

VARIABLES
    state,                \* Host.state: "Running", "ShuttingDown", "Completed"
    tab,                  \* Host.tab as usize
    background_progress,  \* Host.background_progress
    cancelation,          \* the AtomicBool behind Host.cancelation
    weak_count,           \* Arc::weak_count(&Host.cancelation)
    queue,                \* the mpsc channel: events sent and not yet received
    hpc,                  \* Host::run position: "recv", "exit_wait", "draw", "done";
                          \* "failed" (run returned Err), then main: "dropped", "exited"
    workers,              \* the bag of running background_task threads
    snap,                 \* tab and progress when q/Q was handled
    pending,              \* events received and not yet followed by a draw
    frame                 \* what the last terminal.draw rendered

vars == << state, tab, background_progress, cancelation, weak_count, queue, hpc,
           workers, snap, pending, frame >>

hostFields == << state, tab, background_progress, cancelation, weak_count >>

NoSnap == [set |-> FALSE]
Blank == << "blank" >>

\* Host::new, before Host::run receives its first event
Init ==
    /\ state = "Running"
    /\ tab = 0
    /\ background_progress = F64Zero
    /\ cancelation = FALSE
    /\ weak_count = 0
    /\ queue = << >>
    /\ hpc = "recv"
    /\ workers = EmptyBag
    /\ snap = NoSnap
    /\ pending = 0
    /\ frame = Blank

(***************************************************************************)
(* The input thread: Host::handle_key_input.                               *)
(***************************************************************************)
handle_key_input(e) ==
    /\ queue' = IF e.type = "Key" THEN Append(queue, KeyInput(e.key)) ELSE queue
    /\ UNCHANGED << hostFields, hpc, workers, snap, pending, frame >>

(***************************************************************************)
(* The background worker: Host::background_task.  A thread is a record:    *)
(* pc ("check" at the while condition, "sleep" in the loop body), its      *)
(* local progress, the number of events it has sent, and whether c/C was   *)
(* handled while it was running.                                           *)
(***************************************************************************)
NewWorker == [pc |-> "check", progress |-> F64Zero, ticks |-> 0, cancelled |-> FALSE]

Replace(b, w, v) == (b (-) SetToBag({w})) (+) SetToBag({v})

\* Downgrade with a fault: the new handle is not counted
DowngradeUncounted(n) == n

\* Arc::downgrade adds a Weak
Downgrade(n) == n + 1

\* DropWeak with a fault: the worker's Weak is leaked when it returns
DropWeakLeak(n) == n

\* dropping a Weak removes it
DropWeak(n) == n - 1

\* Continue with a fault: the flag is not read
ContinueUncancellable(cancel, p) == F64Lt(p, F64One)

\* Continue with a fault: the progress is not tested
ContinueUnbounded(cancel, p) == ~cancel

\* the while condition
Continue(cancel, p) == ~cancel /\ F64Lt(p, F64One)

\* Advance with a fault: the clamp is missing
AdvanceNoClamp(p) == F64Add(p, increment)

\* progress += increment; progress = progress.min(1)
Advance(p) == F64Min(F64Add(p, increment), F64One)

\* cancel.upgrade(): None once main has dropped the Host, which owns the only Arc
upgrade == IF hpc = "dropped" THEN << "None" >> ELSE << "Some", cancelation >>

\* the test of the while condition; leaving the loop returns and drops the
\* Weak; unwrap() of None panics, which unwinds the thread
WorkerCheck(w) ==
    /\ w.pc = "check"
    /\ workers' = IF upgrade[1] = "None"
                  THEN Replace(workers, w, [w EXCEPT !.pc = "panic_upgrade"])
                  ELSE IF Continue(cancelation, w.progress)
                  THEN Replace(workers, w, [w EXCEPT !.pc = "sleep"])
                  ELSE workers (-) SetToBag({w})
    /\ weak_count' = IF upgrade[1] = "Some" /\ Continue(cancelation, w.progress)
                     THEN weak_count
                     ELSE DropWeak(weak_count)
    /\ UNCHANGED << state, tab, background_progress, cancelation, queue, hpc,
                    snap, pending, frame >>

\* WorkerTick with a fault: the worker stores its progress in the Host itself
WorkerTickStores(w) ==
    /\ w.pc = "sleep"
    /\ hpc # "dropped"
    /\ workers' = Replace(workers, w, [w EXCEPT !.pc = "check",
                                                !.progress = Advance(w.progress),
                                                !.ticks = w.ticks + 1])
    /\ queue' = Append(queue, BackgroundTask(Advance(w.progress)))
    /\ background_progress' = Advance(w.progress)
    /\ UNCHANGED << state, tab, cancelation, weak_count, hpc, snap, pending, frame >>

\* the loop body after its sleep: advance and send
WorkerTick(w) ==
    /\ w.pc = "sleep"
    /\ hpc # "dropped"
    /\ workers' = Replace(workers, w, [w EXCEPT !.pc = "check",
                                                !.progress = Advance(w.progress),
                                                !.ticks = w.ticks + 1])
    /\ queue' = Append(queue, BackgroundTask(Advance(w.progress)))
    /\ UNCHANGED << hostFields, hpc, snap, pending, frame >>

\* the same once main has dropped the Host and with it the Receiver: send
\* returns Err and its unwrap() panics
WorkerSendFails(w) ==
    /\ w.pc = "sleep"
    /\ hpc = "dropped"
    /\ workers' = Replace(workers, w, [w EXCEPT !.pc = "panic_send"])
    /\ weak_count' = DropWeak(weak_count)
    /\ UNCHANGED << state, tab, background_progress, cancelation, queue, hpc,
                    snap, pending, frame >>

(***************************************************************************)
(* The Host loop: Host::run and its two key handlers.                      *)
(***************************************************************************)
\* TabRight with a fault: the last tab wraps to the first
TabRightWrap(cur) == (cur + 1) % TabCount

\* KeyCode::Right and KeyCode::Left
TabRight(cur) == unwrap_or(from_repr(saturating_add(cur, 1)), unwrap_or(from_repr(cur), cur))
TabLeft(cur) == unwrap_or(from_repr(saturating_sub(cur, 1)), unwrap_or(from_repr(cur), cur))

\* IsPress with a fault: the kind of the key event is not matched
IsPressAnyKind(k, codes) == k.code \in codes

\* KeyEventKind::Press and one of the codes of a match arm
IsPress(k, codes) == k.kind = "Press" /\ k.code \in codes

\* QuitCodes with a fault: the upper-case key is not matched
QuitCodesLower == {"q"}

\* the key codes the two handlers match
QuitCodes == {"q", "Q"}
CancelCodes == {"c", "C"}
RunCodes == {"r", "R"}
YesCodes == {"y", "Y"}
NoCodes == {"n", "N"}

\* every running worker marked as having had c/C handled
MarkCancelled(b) ==
    [v \in {[w EXCEPT !.cancelled = TRUE] : w \in BagToSet(b)} |->
        CopiesIn(v, b) + CopiesIn([v EXCEPT !.cancelled = FALSE], b)]

\* handle_key_event with a fault: q/Q completes without the dialog
handle_key_event_quit(k) ==
    /\ state' = IF IsPress(k, QuitCodes) THEN "Completed" ELSE state
    /\ cancelation' =
          IF IsPress(k, CancelCodes) THEN TRUE
          ELSE IF IsPress(k, RunCodes) THEN FALSE
          ELSE cancelation
    /\ weak_count' = IF IsPress(k, RunCodes) THEN Downgrade(weak_count) ELSE weak_count
    /\ workers' =
          IF IsPress(k, RunCodes) THEN workers (+) SetToBag({NewWorker})
          ELSE IF IsPress(k, CancelCodes) THEN MarkCancelled(workers)
          ELSE workers
    /\ tab' =
          IF IsPress(k, {"Right"}) THEN TabRight(tab)
          ELSE IF IsPress(k, {"Left"}) THEN TabLeft(tab)
          ELSE tab
    /\ snap' =
          IF IsPress(k, QuitCodes)
          THEN [set |-> TRUE, tab |-> tab, progress |-> background_progress, upd |-> FALSE]
          ELSE snap
    /\ hpc' = "draw"
    /\ UNCHANGED background_progress

\* handle_key_event with a fault: r/R resets the stored progress
handle_key_event_restart(k) ==
    /\ state' = IF IsPress(k, QuitCodes) THEN "ShuttingDown" ELSE state
    /\ cancelation' =
          IF IsPress(k, CancelCodes) THEN TRUE
          ELSE IF IsPress(k, RunCodes) THEN FALSE
          ELSE cancelation
    /\ weak_count' = IF IsPress(k, RunCodes) THEN Downgrade(weak_count) ELSE weak_count
    /\ workers' =
          IF IsPress(k, RunCodes) THEN workers (+) SetToBag({NewWorker})
          ELSE IF IsPress(k, CancelCodes) THEN MarkCancelled(workers)
          ELSE workers
    /\ tab' =
          IF IsPress(k, {"Right"}) THEN TabRight(tab)
          ELSE IF IsPress(k, {"Left"}) THEN TabLeft(tab)
          ELSE tab
    /\ snap' =
          IF IsPress(k, QuitCodes)
          THEN [set |-> TRUE, tab |-> tab, progress |-> background_progress, upd |-> FALSE]
          ELSE snap
    /\ hpc' = "draw"
    /\ background_progress' = IF IsPress(k, RunCodes) THEN F64Zero ELSE background_progress

\* Host::handle_key_event, called for a key received in Running
handle_key_event(k) ==
    /\ state' = IF IsPress(k, QuitCodes) THEN "ShuttingDown" ELSE state
    /\ cancelation' =
          IF IsPress(k, CancelCodes) THEN TRUE
          ELSE IF IsPress(k, RunCodes) THEN FALSE
          ELSE cancelation
    /\ weak_count' = IF IsPress(k, RunCodes) THEN Downgrade(weak_count) ELSE weak_count
    /\ workers' =
          IF IsPress(k, RunCodes) THEN workers (+) SetToBag({NewWorker})
          ELSE IF IsPress(k, CancelCodes) THEN MarkCancelled(workers)
          ELSE workers
    /\ tab' =
          IF IsPress(k, {"Right"}) THEN TabRight(tab)
          ELSE IF IsPress(k, {"Left"}) THEN TabLeft(tab)
          ELSE tab
    /\ snap' =
          IF IsPress(k, QuitCodes)
          THEN [set |-> TRUE, tab |-> tab, progress |-> background_progress, upd |-> FALSE]
          ELSE snap
    /\ hpc' = "draw"
    /\ UNCHANGED background_progress

\* handle_should_exit with a fault: c/C is honoured while the dialog is shown
handle_should_exit_cancel(k) ==
    /\ state' = IF IsPress(k, NoCodes) THEN "Running" ELSE state
    /\ hpc' = IF IsPress(k, YesCodes) THEN "exit_wait" ELSE "draw"
    /\ snap' = IF IsPress(k, NoCodes) THEN NoSnap ELSE snap
    /\ cancelation' = IF IsPress(k, CancelCodes) THEN TRUE ELSE cancelation
    /\ UNCHANGED << tab, background_progress, weak_count, workers >>

\* handle_should_exit with a fault: n/N also goes back to the first tab
handle_should_exit_reset(k) ==
    /\ state' = IF IsPress(k, NoCodes) THEN "Running" ELSE state
    /\ hpc' = IF IsPress(k, YesCodes) THEN "exit_wait" ELSE "draw"
    /\ snap' = IF IsPress(k, NoCodes) THEN NoSnap ELSE snap
    /\ tab' = IF IsPress(k, NoCodes) THEN 0 ELSE tab
    /\ UNCHANGED << background_progress, cancelation, weak_count, workers >>

\* Host::handle_should_exit, called for a key received in ShuttingDown; y/Y
\* enters the wait loop, whose evaluations are HostExitPoll
handle_should_exit(k) ==
    /\ state' = IF IsPress(k, NoCodes) THEN "Running" ELSE state
    /\ hpc' = IF IsPress(k, YesCodes) THEN "exit_wait" ELSE "draw"
    /\ snap' = IF IsPress(k, NoCodes) THEN NoSnap ELSE snap
    /\ UNCHANGED << tab, background_progress, cancelation, weak_count, workers >>

\* handle_background with a fault: progress is dropped while the dialog is shown
handle_background_running(p) ==
    /\ background_progress' = IF state = "Running" THEN p ELSE background_progress
    /\ snap' = IF snap.set THEN [snap EXCEPT !.upd = TRUE] ELSE snap
    /\ hpc' = "draw"
    /\ UNCHANGED << state, tab, cancelation, weak_count, workers >>

\* Event::BackgroundTask(progress) => self.background_progress = progress
handle_background(p) ==
    /\ background_progress' = p
    /\ snap' = IF snap.set THEN [snap EXCEPT !.upd = TRUE] ELSE snap
    /\ hpc' = "draw"
    /\ UNCHANGED << state, tab, cancelation, weak_count, workers >>

\* HostRecv with a fault: the event received stays in the channel
HostRecvPeek ==
    /\ hpc = "recv"
    /\ queue # << >>
    /\ queue' = queue
    /\ pending' = pending + 1
    /\ frame' = frame
    /\ LET ev == Head(queue)
       IN  IF ev.type = "BackgroundTask" THEN handle_background(ev.progress)
           ELSE IF state = "Running" THEN handle_key_event(ev.key)
           ELSE IF state = "ShuttingDown" THEN handle_should_exit(ev.key)
           ELSE hpc' = "draw" /\ UNCHANGED << hostFields, workers, snap >>

\* one self.rx.recv() and the match on the event received
HostRecv ==
    /\ hpc = "recv"
    /\ queue # << >>
    /\ queue' = Tail(queue)
    /\ pending' = pending + 1
    /\ frame' = frame
    /\ LET ev == Head(queue)
       IN  IF ev.type = "BackgroundTask" THEN handle_background(ev.progress)
           ELSE IF state = "Running" THEN handle_key_event(ev.key)
           ELSE IF state = "ShuttingDown" THEN handle_should_exit(ev.key)
           ELSE hpc' = "draw" /\ UNCHANGED << hostFields, workers, snap >>

\* Waiting with a fault: the wait ends with one worker left
WaitingOff(n) == n > 1

\* the condition of the y/Y wait loop
Waiting(n) == n > 0

\* one evaluation of the y/Y wait loop: while Arc::weak_count > 0 store true and
\* sleep; after the loop state = Completed
HostExitPoll ==
    /\ hpc = "exit_wait"
    /\ cancelation' = IF Waiting(weak_count) THEN TRUE ELSE cancelation
    /\ state' = IF Waiting(weak_count) THEN state ELSE "Completed"
    /\ hpc' = IF Waiting(weak_count) THEN "exit_wait" ELSE "draw"
    /\ snap' = IF Waiting(weak_count) THEN snap ELSE NoSnap
    /\ UNCHANGED << tab, background_progress, weak_count, queue, workers, pending, frame >>

\* HostDraw with a fault: nothing is drawn while the dialog is shown
HostDrawRunning ==
    /\ hpc = "draw"
    /\ frame' = IF state = "ShuttingDown" THEN frame ELSE << state, tab, background_progress >>
    /\ pending' = pending - 1
    /\ hpc' = IF state # "Completed" THEN "recv" ELSE "done"
    /\ UNCHANGED << hostFields, queue, workers, snap >>

\* terminal.draw, then the test of the while condition of Host::run
HostDraw ==
    /\ hpc = "draw"
    /\ frame' = << state, tab, background_progress >>
    /\ pending' = pending - 1
    /\ hpc' = IF state # "Completed" THEN "recv" ELSE "done"
    /\ UNCHANGED << hostFields, queue, workers, snap >>

\* terminal.draw returns an I/O error and the ? operator returns it from Host::run
HostDrawFails ==
    /\ hpc = "draw"
    /\ hpc' = "failed"
    /\ UNCHANGED << hostFields, queue, workers, snap, pending, frame >>

\* main after Host::run has returned: ratatui::restore, then host goes out of
\* scope, which drops the Arc and the Receiver
MainReturns ==
    /\ hpc \in {"done", "failed"}
    /\ hpc' = "dropped"
    /\ UNCHANGED << hostFields, queue, workers, snap, pending, frame >>

\* the process exits after main, which ends every thread
ProcessExits ==
    /\ hpc = "dropped"
    /\ hpc' = "exited"
    /\ workers' = EmptyBag
    /\ UNCHANGED << hostFields, queue, snap, pending, frame >>

(***************************************************************************)
(* Specifications.  The threads are those of the program; a specification  *)
(* fixes what the user types and how far the model follows the workers.    *)
(***************************************************************************)
IsKey(ev) == ev.type = "KeyInput"
IsRun(ev) == ev.type = "KeyInput" /\ IsPress(ev.key, RunCodes)
Count(P(_)) == Cardinality({i \in 1 .. Len(queue) : P(queue[i])})

\* the input thread sends while fewer than MaxQueue keys wait, and a run
\* request while fewer than spawns workers run or are requested
KeyRoom(e, spawns) ==
    /\ Count(IsKey) < MaxQueue
    /\ (e.type = "Key" /\ IsRun(KeyInput(e.key))) =>
          BagCardinality(workers) + Count(IsRun) < spawns

\* a worker starts at most MaxTicks iterations
TickRoom(w) == Continue(cancelation, w.progress) => w.ticks < MaxTicks

\* the Host keeps up with the workers while it receives; in its y/Y wait it
\* receives nothing and the workers send on (the channel is unbounded)
SendRoom == hpc = "exit_wait" \/ Len(queue) <= MaxBacklog

Input(keys, spawns) ==
    \E e \in TerminalEvents(keys) : KeyRoom(e, spawns) /\ handle_key_input(e)

Press(codes) == [code : codes, kind : {"Press"}]

\* the user starts, cancels and restarts workers and quits
ProtocolKeys == Press({"q", "c", "r", "R", "y", "n"})

Next ==
    \/ Input(ProtocolKeys, MaxSpawns)
    \/ HostRecv
    \/ HostExitPoll
    \/ HostDraw
    \/ \E w \in BagToSet(workers) : TickRoom(w) /\ WorkerCheck(w)
    \/ \E w \in BagToSet(workers) : SendRoom /\ WorkerTick(w)

Spec == Init /\ [][Next]_vars

\* the Host thread and the worker threads are scheduled; the user may stop typing
Fairness ==
    /\ WF_vars(HostExitPoll)
    /\ WF_vars(HostDraw)
    /\ WF_vars(\E w \in BagToSet(workers) : TickRoom(w) /\ WorkerCheck(w))
    /\ WF_vars(\E w \in BagToSet(workers) : SendRoom /\ WorkerTick(w))

FairSpec == Spec /\ Fairness

\* the user navigates the tabs and the exit dialog beside one worker
NavKeys == Press({"q", "Q", "c", "r", "y", "n", "Left", "Right", "Esc"})

NextUI ==
    \/ Input(NavKeys, MaxUISpawns)
    \/ HostRecv
    \/ HostExitPoll
    \/ HostDraw
    \/ \E w \in BagToSet(workers) : TickRoom(w) /\ WorkerCheck(w)
    \/ \E w \in BagToSet(workers) : SendRoom /\ WorkerTick(w)

SpecUI == Init /\ [][NextUI]_vars

\* the user starts a worker and lets it run to its end
RunKeys == Press({"r"})

NextRun ==
    \/ Input(RunKeys, MaxUISpawns)
    \/ HostRecv
    \/ HostDraw
    \/ \E w \in BagToSet(workers) : WorkerCheck(w)
    \/ \E w \in BagToSet(workers) : SendRoom /\ WorkerTick(w)

SpecRun == Init /\ [][NextRun]_vars

\* 0.5_f64
F64Half == << 262144, 0, 0 >>

\* the user follows one scenario, typing each key once the previous one has
\* taken effect: Right, r, c when half of the run is stored, q, y
ScenarioTurn(k) ==
    /\ Count(IsKey) = 0
    /\ k.kind = "Press"
    /\ \/ /\ k.code = "Right"
          /\ state = "Running" /\ tab = 0 /\ weak_count = 0 /\ ~cancelation
          /\ background_progress = F64Zero
       \/ /\ k.code = "r"
          /\ state = "Running" /\ tab = 1 /\ weak_count = 0 /\ ~cancelation
          /\ background_progress = F64Zero
       \/ /\ k.code = "c"
          /\ state = "Running" /\ ~cancelation /\ ~F64Lt(background_progress, F64Half)
       \/ /\ k.code = "q"
          /\ state = "Running" /\ cancelation
       \/ /\ k.code = "y"
          /\ state = "ShuttingDown" /\ hpc # "exit_wait"

ScenarioKeys == Press({"Right", "r", "c", "q", "y"})

ScenarioInput ==
    \E e \in TerminalEvents(ScenarioKeys) :
        e.type = "Key" /\ ScenarioTurn(e.key) /\ handle_key_input(e)

NextScenario ==
    \/ ScenarioInput
    \/ HostRecv
    \/ HostExitPoll
    \/ HostDraw
    \/ \E w \in BagToSet(workers) : WorkerCheck(w)
    \/ \E w \in BagToSet(workers) : SendRoom /\ WorkerTick(w)

\* every thread is scheduled and the user goes through with the scenario
ScenarioFairness ==
    /\ WF_vars(ScenarioInput)
    /\ WF_vars(HostRecv)
    /\ WF_vars(HostExitPoll)
    /\ WF_vars(HostDraw)
    /\ WF_vars(\E w \in BagToSet(workers) : WorkerCheck(w))
    /\ WF_vars(\E w \in BagToSet(workers) : SendRoom /\ WorkerTick(w))

SpecScenario == Init /\ [][NextScenario]_vars /\ ScenarioFairness

\* the user types one key at a time, starts a run when none is running or
\* requested, and may cancel it
OneRunTurn(e) ==
    /\ Count(IsKey) = 0
    /\ (e.type = "Key" /\ IsRun(KeyInput(e.key))) => (workers = EmptyBag /\ Count(IsRun) = 0)

OneRunKeys == Press({"r", "c"})

OneRunInput == \E e \in TerminalEvents(OneRunKeys) : OneRunTurn(e) /\ handle_key_input(e)

NextWorker ==
    \/ OneRunInput
    \/ HostRecv
    \/ HostDraw
    \/ \E w \in BagToSet(workers) : WorkerCheck(w)
    \/ \E w \in BagToSet(workers) : SendRoom /\ WorkerTick(w)

\* the Host thread and the worker thread are scheduled
WorkerFairness ==
    /\ WF_vars(HostRecv)
    /\ WF_vars(HostDraw)
    /\ WF_vars(\E w \in BagToSet(workers) : WorkerCheck(w))
    /\ WF_vars(\E w \in BagToSet(workers) : SendRoom /\ WorkerTick(w))

SpecWorker == Init /\ [][NextWorker]_vars /\ WorkerFairness

\* the terminal reports releases and repeats of every key besides presses; the
\* user types one key at a time and presses what the footer offers: q, c, r
\* and Right in Running, y and n in the dialog
FooterTurn(e) ==
    /\ Count(IsKey) = 0
    /\ (e.type = "Key" /\ IsRun(KeyInput(e.key))) => BagCardinality(workers) < MaxUISpawns
    /\ (e.type = "Key" /\ e.key.kind = "Press") =>
          IF e.key.code \in YesCodes \cup NoCodes
          THEN state = "ShuttingDown" /\ hpc # "exit_wait"
          ELSE state = "Running"

KindKeys ==
    Press({"q", "c", "r", "Right", "y", "n"}) \cup [code : KeyCodes, kind : KeyKinds \ {"Press"}]

KindInput == \E e \in TerminalEvents(KindKeys) : FooterTurn(e) /\ handle_key_input(e)

NextKinds ==
    \/ KindInput
    \/ HostRecv
    \/ HostExitPoll
    \/ HostDraw
    \/ \E w \in BagToSet(workers) : TickRoom(w) /\ WorkerCheck(w)
    \/ \E w \in BagToSet(workers) : SendRoom /\ WorkerTick(w)

SpecKinds == Init /\ [][NextKinds]_vars

\* the terminal may fail under the Host, and main runs to the end of the process
NextFault ==
    \/ hpc \in {"recv", "draw", "exit_wait"} /\ Input(ProtocolKeys, MaxUISpawns)
    \/ HostRecv
    \/ HostExitPoll
    \/ HostDraw
    \/ HostDrawFails
    \/ MainReturns
    \/ ProcessExits
    \/ \E w \in BagToSet(workers) : (hpc = "dropped" \/ TickRoom(w)) /\ WorkerCheck(w)
    \/ \E w \in BagToSet(workers) : SendRoom /\ WorkerTick(w)
    \/ \E w \in BagToSet(workers) : WorkerSendFails(w)

SpecFault == Init /\ [][NextFault]_vars

(***************************************************************************)
(* Properties.                                                             *)
(***************************************************************************)
View == << state, tab, background_progress >>

\* this step is the Host receiving and handling event ev
Handles(ev) == hpc = "recv" /\ hpc' # "recv" /\ queue # << >> /\ Head(queue) = ev

\* this step is the Host handling a press of one of codes
HandlesPress(codes) ==
    \E k \in KeyEvents : IsPress(k, codes) /\ Handles(KeyInput(k))

\* this step is the Host handling a BackgroundTask event
HandlesProgress ==
    hpc = "recv" /\ hpc' # "recv" /\ queue # << >> /\ Head(queue).type = "BackgroundTask"

\* this step is worker w testing its while condition and entering the body
StartsIteration(w) ==
    w.pc = "check" /\ workers' = Replace(workers, w, [w EXCEPT !.pc = "sleep"])

\* this step is worker w sending its next event
Sends(w) ==
    /\ w.pc = "sleep"
    /\ Len(queue') = Len(queue) + 1
    /\ queue'[Len(queue')].type = "BackgroundTask"
    /\ workers' = Replace(workers, w, [w EXCEPT !.pc = "check",
                                                !.progress = queue'[Len(queue')].progress,
                                                !.ticks = w.ticks + 1])

\* C1: the Host's state is Completed only when no worker handle is outstanding
\* (weak count zero) and no worker thread is running.
C1_CompletedOnlyWithoutWorkers ==
    state = "Completed" => weak_count = 0 /\ BagCardinality(workers) = 0

\* C1 witness: the loop has exited after workers ran and were cancelled
C1_Witness ==
    hpc = "done" /\ state = "Completed" /\ cancelation /\ background_progress # F64Zero

\* C2: a worker that was running when c/C was handled sends at most one more
\* event and then terminates: it never starts another loop iteration.
C2_CancelledWorkerStops ==
    [][\A w \in BagToSet(workers) : w.cancelled => ~StartsIteration(w)]_vars

\* C3: at most one worker is alive at any time.
C3_AtMostOneWorker == weak_count <= 1 /\ BagCardinality(workers) <= 1

\* C4: once y/Y is handled in ShuttingDown, the Host eventually sets Completed
\* and its loop exits, whatever workers run and whatever the channel holds.
C4_ExitWaitEnds == (hpc = "exit_wait") ~> (hpc = "done" /\ state = "Completed")

\* C4 witness: the Host waits while two workers run and events are queued
C4_Witness == hpc = "exit_wait" /\ weak_count = 2 /\ queue # << >>

\* C5: the selected tab stays in [0, 3]; Right moves it up by one except on the
\* last tab, Left moves it down by one except on the first, where it stays.
C5_TabClamped ==
    /\ [](tab \in 0 .. TabCount - 1)
    /\ [][(state = "Running" /\ HandlesPress({"Right"}))
             => tab' = (IF tab = TabCount - 1 THEN tab ELSE tab + 1)]_vars
    /\ [][(state = "Running" /\ HandlesPress({"Left"}))
             => tab' = (IF tab = 0 THEN tab ELSE tab - 1)]_vars

\* C5 witness: an event was handled on the last tab and the last tab is still selected
C5_Witness == hpc = "draw" /\ frame # Blank /\ frame[2] = TabCount - 1 /\ tab = TabCount - 1

\* C6 as stated: after n/N the tab and the stored progress are those of the
\* moment q/Q was handled.
C6_Original ==
    [][(state = "ShuttingDown" /\ HandlesPress(NoCodes))
          => tab' = snap.tab /\ background_progress' = snap.progress]_vars

\* C6 amended: n/N returns to Running with the tab q/Q was handled on and leaves
\* the stored progress as it is; the progress is that of the moment q/Q was
\* handled unless a BackgroundTask event was received since.
C6_Amended ==
    [][(state = "ShuttingDown" /\ HandlesPress(NoCodes))
          => /\ state' = "Running"
             /\ tab' = snap.tab
             /\ background_progress' = background_progress
             /\ ~snap.upd => background_progress' = snap.progress]_vars

\* C6 witness: n/N was just handled (the screen still shows the dialog) on a
\* later tab with progress stored
C6_Witness ==
    /\ hpc = "draw" /\ state = "Running" /\ frame # Blank /\ frame[1] = "ShuttingDown"
    /\ tab # 0 /\ background_progress # F64Zero

\* C7: a q/Q press handled in Running sets ShuttingDown and changes neither the
\* tab, the stored progress, the cancel flag nor the workers.
C7_QuitOpensDialog ==
    [][(state = "Running" /\ HandlesPress({"q", "Q"}))
          => /\ state' = "ShuttingDown"
             /\ UNCHANGED << tab, background_progress, cancelation, weak_count, workers >>]_vars

\* C7 witness: the dialog was just opened (the screen still shows Running) on a
\* later tab, with progress stored, the flag set and a worker running
C7_Witness ==
    /\ hpc = "draw" /\ state = "ShuttingDown" /\ frame # Blank /\ frame[1] = "Running"
    /\ tab # 0 /\ background_progress # F64Zero /\ cancelation /\ weak_count > 0

\* C8: receiving BackgroundTask(p), in Running or ShuttingDown, stores p and
\* changes neither the state, the tab, the cancel flag nor the workers.
C8_ProgressOnlyStored ==
    [][HandlesProgress
          => /\ background_progress' = Head(queue).progress
             /\ UNCHANGED << state, tab, cancelation, weak_count, workers >>]_vars

\* C8 witness: a BackgroundTask event was just received while the dialog is shown
C8_Witness ==
    /\ hpc = "draw" /\ state = "ShuttingDown" /\ snap.upd
    /\ frame # Blank /\ frame[3] # background_progress

\* a <= b
F64Le(a, b) == ~F64Lt(b, a)

\* n * a in f64, n a small natural number (exactly representable)
F64MulNat(n, a) == F64Round(F64Norm(n * a[1], n * a[2], n * a[3]))

\* |a - b| in units of 2^-59, for values whose high limbs differ by at most 1
\* and whose difference is small; a larger difference is reported as 2 * Limb
F64AbsDiff(a, b) ==
    LET x == IF F64Lt(a, b) THEN b ELSE a
        y == IF F64Lt(a, b) THEN a ELSE b
        d1 == x[1] - y[1]
        d2 == d1 * Limb + (x[2] - y[2])
    IN  IF d1 > 1 \/ d2 > 1 THEN 2 * Limb
        ELSE d2 * Limb + (x[3] - y[3])

\* min(1, N * 0.01) in f64
Ideal(n) == F64Min(F64MulNat(n, increment), F64One)

\* 2^-50, in units of 2^-59
Tolerance == Pow2(9)

\* C9 as stated: the N-th value a worker sends is min(1, N * 0.01).
C9_Original == \A w \in BagToSet(workers) : w.progress = Ideal(w.ticks)

\* C9 amended: the values a worker sends are non-decreasing and within [0, 1];
\* the N-th is within 2^-50 of min(1, N * 0.01); the 100th, and no earlier
\* one, is exactly 1.0, and there is no 101st.
C9_Amended ==
    /\ [](\A w \in BagToSet(workers) :
            /\ F64Le(F64Zero, w.progress) /\ F64Le(w.progress, F64One)
            /\ F64AbsDiff(w.progress, Ideal(w.ticks)) <= Tolerance
            /\ w.ticks <= 100
            /\ w.progress = F64One <=> w.ticks = 100)
    /\ [][\A w \in BagToSet(workers) :
            Sends(w) => /\ F64Le(w.progress, queue'[Len(queue')].progress)
                        /\ F64Le(queue'[Len(queue')].progress, F64One)]_vars

\* C9 witness: a worker has sent its 100th event, 1.0, and the Host has stored it
C9_Witness ==
    /\ background_progress = F64One
    /\ \E w \in BagToSet(workers) : w.ticks = 100 /\ w.progress = F64One

\* C10: each event received is followed by exactly one draw, of the state its
\* handling left, before the next event is received; nothing is drawn otherwise.
C10_OneDrawPerEvent ==
    /\ hpc \in {"recv", "done"} =>
          /\ pending = 0
          /\ frame = View \/ (frame = Blank /\ View = << "Running", 0, F64Zero >>)
    /\ hpc \in {"draw", "exit_wait"} => pending = 1

\* C10 witness: the event that completed the Host has been drawn
C10_Witness == hpc = "done" /\ pending = 0 /\ frame = << "Completed", tab, background_progress >>

\* this step is the Host handling key event k
HandlesKey(k) == Handles(KeyInput(k))

\* C11: while the exit dialog is shown (ShuttingDown) a key event other than a
\* y/Y or n/N press changes neither the state, the tab, the stored progress,
\* the cancel flag, the weak count nor the workers.
C11_DialogIgnoresOtherKeys ==
    [][\A k \in KeyEvents :
          (state = "ShuttingDown" /\ HandlesKey(k) /\ ~IsPress(k, YesCodes \cup NoCodes))
             => UNCHANGED << state, tab, background_progress, cancelation, weak_count,
                             workers >>]_vars

\* C11 witness: a key other than y/Y and n/N was just handled in the dialog (no
\* progress event since q/Q; the dialog is on screen and stays), on a later
\* tab, with a worker running and the flag not set
C11_Witness ==
    /\ hpc = "draw" /\ state = "ShuttingDown" /\ ~snap.upd
    /\ frame # Blank /\ frame[1] = "ShuttingDown"
    /\ tab # 0 /\ weak_count > 0 /\ ~cancelation

\* this step sends one event: it is appended to the channel
SendsEvent ==
    Len(queue') = Len(queue) + 1 /\ SubSeq(queue', 1, Len(queue)) = queue

\* this step is the Host consuming the event at the head of the channel
Consumes ==
    hpc = "recv" /\ queue # << >> /\ queue' = Tail(queue) /\ pending' = pending + 1

\* no step duplicates, reorders or drops an event of the channel, and an event
\* is handled only in the step that removes it
ChannelSteps ==
    [][\/ queue' = queue /\ pending' <= pending
       \/ SendsEvent /\ pending' = pending
       \/ Consumes]_vars

\* C12 as stated: every event sent is consumed exactly once, and none is left
\* in the channel when the Host loop has exited.
C12_Original == ChannelSteps /\ [](hpc = "done" => queue = << >>)

\* C12 amended: every event sent is consumed at most once, in channel order;
\* the Host consumes nothing in its y/Y wait or after its loop has exited, so
\* the events then in the channel or sent later stay unconsumed.
C12_Amended ==
    /\ ChannelSteps
    /\ [][(hpc = "exit_wait" \/ hpc = "done") => ~Consumes]_vars
    /\ [][hpc = "exit_wait" =>
             /\ hpc' \in {"exit_wait", "draw"}
             /\ hpc' = "draw" => state' = "Completed"]_vars
    /\ [][state = "Completed" => state' = "Completed" /\ hpc' \in {"draw", "done"}]_vars

\* C12 witness: the loop has exited after consuming progress events, with
\* events left in the channel
C12_Witness ==
    hpc = "done" /\ queue # << >> /\ background_progress # F64Zero /\ pending = 0

\* the steps of the scenario other than the value of the 50th tick
ScenarioSteps ==
    /\ state = "Running" /\ tab = 0
    /\ [][HandlesPress({"Right"}) => tab = 0 /\ tab' = 1]_vars
    /\ [][HandlesPress(RunCodes)
            => tab = 1 /\ workers' = SetToBag({NewWorker}) /\ weak_count' = 1]_vars
    /\ [][HandlesPress(CancelCodes)
            => cancelation' /\ ~F64Lt(background_progress, F64Half)]_vars
    /\ [][\A w \in BagToSet(workers) : w.cancelled => ~StartsIteration(w)]_vars
    /\ [][HandlesPress(QuitCodes) => state = "Running" /\ state' = "ShuttingDown"]_vars
    /\ [][HandlesPress(YesCodes) => state = "ShuttingDown" /\ hpc' = "exit_wait"]_vars
    /\ [](state = "Completed" => weak_count = 0 /\ workers = EmptyBag /\ tab = 1)
    /\ <>(hpc = "done" /\ state = "Completed")

\* C13 as stated: in the scenario Right, r, c, q, y the second tab is selected,
\* the worker's 50th tick delivers 0.50, after c the worker starts no further
\* iteration, q opens the dialog and y ends the loop, only with weak count zero.
C13_Original ==
    /\ ScenarioSteps
    /\ [](\A w \in BagToSet(workers) : w.ticks = 50 => w.progress = F64Half)

\* C13 amended: the same, the 50th tick delivering the f64 sum of fifty
\* increments, which is above 0.50 by less than 2^-50.
C13_Amended ==
    /\ ScenarioSteps
    /\ [](\A w \in BagToSet(workers) :
            w.ticks = 50 => /\ F64Lt(F64Half, w.progress)
                            /\ F64AbsDiff(w.progress, F64Half) <= Tolerance)

\* C13 witness: the scenario has run to its end
C13_Witness ==
    /\ hpc = "done" /\ state = "Completed" /\ tab = 1 /\ cancelation /\ weak_count = 0
    /\ ~F64Lt(background_progress, F64Half)

\* C14: a worker that finds the token dropped when it upgrades its Weak stops
\* silently: it never panics there.
C14_StaleHandleSilent == \A w \in BagToSet(workers) : w.pc # "panic_upgrade"

\* C15: handling an r/R press in Running leaves the flag false and adds one
\* Weak and one worker at its start, in the Host's own step; every running
\* worker holds a Weak, so the y/Y wait does not end while a worker runs.
C15_RunStartsCounted ==
    /\ [][(state = "Running" /\ HandlesPress(RunCodes))
            => /\ ~cancelation'
               /\ weak_count' = weak_count + 1
               /\ workers' = workers (+) SetToBag({NewWorker})]_vars
    /\ [](weak_count = BagCardinality(workers))
    /\ [][(hpc = "exit_wait" /\ workers # EmptyBag)
            => hpc' = "exit_wait" /\ state' # "Completed"]_vars

\* C15 witness: r/R was just handled with the flag set and a cancelled worker
\* still running: the flag is false again and two handles are counted
C15_Witness ==
    /\ hpc = "draw" /\ state = "Running" /\ ~cancelation /\ weak_count = 2
    /\ CopiesIn(NewWorker, workers) = 1
    /\ \E w \in BagToSet(workers) : w.cancelled

\* this step is worker w leaving its loop and returning
Exits(w) == w.pc = "check" /\ workers' = workers (-) SetToBag({w})

\* C16: a worker leaves its loop exactly when its test reads the flag true or
\* its progress has reached 1.0, which it has after 100 ticks; leaving drops
\* its Weak (weak count one lower); under fair scheduling every worker leaves.
C16_WorkerTerminates ==
    /\ [][\A w \in BagToSet(workers) :
            /\ Exits(w) => /\ cancelation \/ w.progress = F64One
                           /\ w.progress = F64One <=> w.ticks = 100
                           /\ weak_count' = weak_count - 1
            /\ StartsIteration(w) => /\ ~cancelation /\ F64Lt(w.progress, F64One)
                                     /\ w.ticks < 100
                                     /\ weak_count' = weak_count]_vars
    /\ [](\A w \in BagToSet(workers) : w.ticks <= 100)
    /\ (workers # EmptyBag) ~> (workers = EmptyBag)

\* C16 witness: a worker has left after its 100th tick without a cancel request
C16_Witness ==
    /\ workers = EmptyBag /\ weak_count = 0 /\ ~cancelation
    /\ background_progress = F64One

\* C17: the state starts as Running and changes only from Running to
\* ShuttingDown at a q/Q press, from ShuttingDown to Running at an n/N press
\* and from ShuttingDown to Completed in the wait a y/Y press started; once
\* Completed the Host receives no event and changes none of its fields.
C17_StateTransitions ==
    /\ state = "Running"
    /\ [][state' # state
            => \/ state = "Running" /\ state' = "ShuttingDown" /\ HandlesPress(QuitCodes)
               \/ state = "ShuttingDown" /\ state' = "Running" /\ HandlesPress(NoCodes)
               \/ state = "ShuttingDown" /\ state' = "Completed" /\ hpc = "exit_wait"]_vars
    /\ [][(hpc # "exit_wait" /\ hpc' = "exit_wait")
            => state = "ShuttingDown" /\ HandlesPress(YesCodes)]_vars
    /\ [][state = "Completed" => UNCHANGED hostFields /\ ~Consumes]_vars

\* C17 witness: the loop has exited in Completed and drawn it, on a later tab,
\* with an event left in the channel
C17_Witness ==
    /\ hpc = "done" /\ state = "Completed" /\ frame # Blank /\ frame[1] = "Completed"
    /\ tab # 0 /\ queue # << >>

\* this step is the input thread sending a key event
InputStep == SendsEvent /\ queue'[Len(queue')].type = "KeyInput"

\* this step is a worker thread's: a while test, a tick or a return (a Host
\* step that adds or marks workers moves the Host on)
WorkerStep == workers' # workers /\ hpc' = hpc

\* C18: a step of the input thread or of a worker thread changes neither the
\* state, the tab, the stored progress nor the flag; the input thread leaves
\* the weak count alone and a worker at most drops its own Weak.  These four
\* change only in a step of the Host handling an event or in its y/Y wait.
C18_OnlyHostWrites ==
    /\ [][InputStep => UNCHANGED << hostFields, workers >>]_vars
    /\ [][WorkerStep
            => /\ UNCHANGED << state, tab, background_progress, cancelation >>
               /\ weak_count' = weak_count \/ weak_count' = weak_count - 1]_vars
    /\ [][<< state, tab, background_progress, cancelation >>' #
             << state, tab, background_progress, cancelation >>
            => (hpc = "recv" /\ Consumes) \/ (hpc = "exit_wait" /\ workers' = workers)]_vars

\* C18 witness: the Host waits for a worker and both other threads have sent
C18_Witness ==
    /\ hpc = "exit_wait" /\ state = "ShuttingDown" /\ workers # EmptyBag
    /\ Count(IsKey) > 0 /\ Len(queue) > Count(IsKey)

\* C19: no key event changes the stored progress; in Running a c/C press only
\* sets the flag (weak count and number of workers as before, with or without
\* a worker) and an r/R press only clears the flag and adds one worker: neither
\* changes the state or the tab.
C19_CancelRunFrame ==
    /\ [][(\E k \in KeyEvents : HandlesKey(k))
            => background_progress' = background_progress]_vars
    /\ [][(state = "Running" /\ HandlesPress(CancelCodes))
            => /\ cancelation'
               /\ UNCHANGED << state, tab, weak_count >>
               /\ BagCardinality(workers') = BagCardinality(workers)]_vars
    /\ [][(state = "Running" /\ HandlesPress(RunCodes))
            => /\ ~cancelation'
               /\ UNCHANGED << state, tab >>
               /\ BagCardinality(workers') = BagCardinality(workers) + 1]_vars

\* C19 witness: r/R was just handled on a later tab with the progress of an
\* earlier run stored
C19_Witness ==
    /\ hpc = "draw" /\ state = "Running" /\ frame # Blank /\ frame[1] = "Running"
    /\ CopiesIn(NewWorker, workers) = 1
    /\ tab # 0 /\ background_progress # F64Zero /\ frame[3] = background_progress

\* C20: a key event whose kind is not Press, of any code and in any state,
\* changes neither the state, the tab, the stored progress, the flag, the weak
\* count nor the workers; it is consumed, and the one draw that follows it
\* precedes the next receive.
C20_OnlyPressActs ==
    /\ [][\A k \in KeyEvents :
            (k.kind # "Press" /\ HandlesKey(k))
               => /\ UNCHANGED << hostFields, workers >>
                  /\ Consumes
                  /\ hpc' = "draw"]_vars
    /\ [][hpc = "draw"
            => \/ hpc' = "draw" /\ UNCHANGED << pending, frame >>
               \/ hpc' # "draw" /\ pending' = pending - 1 /\ frame' = View]_vars
    /\ [](hpc = "draw" => pending = 1)

\* C20 witness: in the dialog, on a later tab with a worker running, an event
\* that is neither a progress event nor a press was just handled
C20_Witness ==
    /\ hpc = "draw" /\ state = "ShuttingDown" /\ ~snap.upd
    /\ frame # Blank /\ frame[1] = "ShuttingDown"
    /\ tab = 2 /\ weak_count > 0 /\ cancelation

====
